---- MODULE Spec2Model ----
(***************************************************************************)
(* Subtractive: a polyphonic synthesizer voice manager (AudioEngine) and a *)
(* lookahead step sequencer (DrumMachineEngine) driving a Web Audio sink.  *)
(*                                                                         *)
(* Time is counted in ticks of 6.25 ms, so that the program's constants    *)
(* and every grid / swing value used here are whole numbers:               *)
(*   lookahead 25 ms = 4, scheduleAheadTime 0.1 s = 16, lead-in 0.05 s = 8 *)
(*   secondsPer16th = 60/bpm/4 s = 2400/bpm ticks.                         *)
(* The sequencer modelled is the swing/pitch revision of the engine        *)
(* (src/unnamed/part_001); the voice manager is src/services/AudioEngine.ts*)
(***************************************************************************)
EXTENDS Integers, Sequences, FiniteSets, TLC

VARIABLES
    \* ---- the audio sink (AudioContext) ----
    now,            \* audioContext.currentTime, in ticks
    ctxState,       \* state of this.audioContext: "none" (null) | "suspended" | "running"
    \* ---- AudioEngine fields ----
    ctxId,          \* which AudioContext this.audioContext is (0: null)
    params,         \* the held SynthParameters
    activeNotes,    \* Map<number, ActiveNote>: note -> voice (0: no entry)
    voices,         \* every ActiveNote built so far, by voice number
    \* ---- DrumMachineEngine fields ----
    isPlaying, bpm, pattern, currentStep, timerId, nextNoteTime, swing, trackPitches,
    \* ---- host timers and the sink's queue (drum side) ----
    wakeTimers,     \* pending window.setTimeout(scheduler) timers: set of [id, due]
    uiTimers,       \* pending deferred step callbacks, in creation order: Seq of [due, step, run]
    queue,          \* drum events enqueued in the sink and not yet started: set of [track, time, rate]
    \* ---- observation of the drum engine (history) ----
    batch,          \* the steps scheduled by the most recent scheduling pass
    batchFromPlay,  \* TRUE when that pass was the one play() ran
    prevFire,       \* fire time of the last step scheduled before that pass (-1: none)
    lastFire,       \* fire time of the last step scheduled so far (-1: none)
    delivered,      \* the last value handed to onStepChange: [value, forStep, run]
    run,            \* number of play() calls that started a run
    scheduled,      \* number of scheduleNextNote calls since the last play() (capped at 32)
    \* ---- the host ----
    calls,          \* number of host calls that took effect so far
    lastOp          \* the last host call or timer callback, and whether it returned early

drumVars == <<isPlaying, bpm, pattern, currentStep, timerId, nextNoteTime, swing, trackPitches,
              wakeTimers, uiTimers, queue, batch, batchFromPlay, prevFire, lastFire,
              delivered, run, scheduled>>

synthVars == <<ctxId, params, activeNotes, voices>>

vars == <<now, ctxState, calls, lastOp, drumVars, synthVars>>

-----------------------------------------------------------------------------
(* Bounds of the model *)
MaxTime == 56        \* the clock stops advancing here (0.35 s)
ClockStep == 8       \* the clock advances in steps of this many ticks
MaxSynthTime == 32   \* the clock stops here when only the voice manager runs (0.2 s)
MaxCalls == 4        \* host calls that take effect, per behaviour
MaxWakeLate == 20    \* the wake timer runs at most this many ticks after it is due
MaxUiLate == 4       \* a deferred step callback runs at most this many ticks after it is due
MaxScheduled == 32   \* scheduled steps are counted up to this many (two cycles of the grid)

(* Program constants, in ticks *)
lookahead == 4
scheduleAheadTime == 16
leadIn == 8
DEFAULT_BPM == 120

\* what lastOp records: the call (or callback) and the argument it was given, if any
\* and, for a call made by the MIDI handler, the message that caused it
Op(name) == [op |-> name, arg |-> 0, msg |-> <<>>]
OpOn(name, n) == [op |-> name, arg |-> n, msg |-> <<>>]
OpFor(name, n, message) == [op |-> name, arg |-> n, msg |-> message]

Max(a, b) == IF a >= b THEN a ELSE b
Min(a, b) == IF a <= b THEN a ELSE b

-----------------------------------------------------------------------------
(* Inputs *)
Tracks == <<"kick", "snare", "hihat", "crash">>
TrackSet == {"kick", "snare", "hihat", "crash"}
Bpms == {120, 600}
Swings == {0, 100}
Pitches == {12}
\* a StepSequencePattern: per track, the 16 bits of steps 0..15 (bit of step s at s + 1)
BitsOf(on(_)) == [i \in 1..16 |-> IF on(i - 1) THEN 1 ELSE 0]
Never(s) == FALSE
Always(s) == TRUE
Quarter(s) == s % 4 = 0
Backbeat(s) == s \in {4, 12}
Offbeat(s) == s % 2 = 1
First(s) == s = 0

\* this.pattern = null
NoPattern == [t \in TrackSet |-> <<>>]
DEFAULT_DRUM_PATTERN == [t \in TrackSet |-> BitsOf(Never)]
FourOnFloor == [kick |-> BitsOf(Quarter), snare |-> BitsOf(Backbeat),
                hihat |-> BitsOf(Offbeat), crash |-> BitsOf(First)]
AllOn == [t \in TrackSet |-> BitsOf(Always)]
Patterns == {DEFAULT_DRUM_PATTERN, FourOnFloor, AllOn}

-----------------------------------------------------------------------------
(* AudioEngine: data *)

\* notes whose frequency 440 * 2^((note - 69) / 12) is a whole number of Hz
Notes == {57, 69}
Velocities == {100}
OscIx == 1..4

\* SynthParameters. Times are in ticks; gain, depth and sustain in hundredths.
Patch1 ==
    [osc |-> << [waveform |-> "sawtooth", detune |-> 0,   enabled |-> TRUE,  gain |-> 100],
                [waveform |-> "sawtooth", detune |-> 12,  enabled |-> TRUE,  gain |-> 50],
                [waveform |-> "square",   detune |-> -12, enabled |-> FALSE, gain |-> 50],
                [waveform |-> "sine",     detune |-> 0,   enabled |-> FALSE, gain |-> 0] >>,
     lfo |-> [waveform |-> "sine", rate |-> 5, depth |-> 50, delay |-> 0, fade |-> 8,
              target |-> "pitch"],
     filter |-> [cutoff |-> 4000, resonance |-> 5],
     ampEnvelope |-> [attack |-> 8, decay |-> 8, sustain |-> 70, release |-> 8],
     filterEnvelope |-> [attack |-> 8, decay |-> 16, sustain |-> 40, release |-> 16,
                         amount |-> 3000]]

Patch2 ==
    [Patch1 EXCEPT !.osc[1].waveform = "square", !.osc[3].enabled = TRUE,
                   !.lfo = [waveform |-> "triangle", rate |-> 2, depth |-> 100, delay |-> 8,
                            fade |-> 0, target |-> "filter"],
                   !.filter = [cutoff |-> 1000, resonance |-> 10],
                   !.ampEnvelope.release = 16,
                   !.filterEnvelope.release = 8, !.filterEnvelope.amount = 1000]

Patch3 ==
    [Patch1 EXCEPT !.lfo.target = "amp", !.lfo.depth = 0,
                   !.ampEnvelope.attack = 0, !.ampEnvelope.release = 0,
                   !.filterEnvelope.release = 0, !.filterEnvelope.sustain = 0]

Patch4 == [Patch1 EXCEPT !.lfo.depth = 100, !.osc[2].gain = 100,
                         !.filterEnvelope.sustain = 100]

ParamSets == {Patch1, Patch2, Patch3, Patch4}

\* the nodes of one ActiveNote
OscNode(i) == CASE i = 1 -> "osc1" [] i = 2 -> "osc2" [] i = 3 -> "osc3" [] i = 4 -> "osc4"
OscGainNode(i) ==
    CASE i = 1 -> "osc1Gain" [] i = 2 -> "osc2Gain" [] i = 3 -> "osc3Gain" [] i = 4 -> "osc4Gain"
VoiceNodes ==
    {"osc1", "osc2", "osc3", "osc4", "osc1Gain", "osc2Gain", "osc3Gain", "osc4Gain",
     "lfoOsc", "lfoGain", "filter", "filterEnvSource", "filterEnvGain", "amp", "tremoloGain"}
\* the sources noteOff stops
Sources == {"osc1", "osc2", "osc3", "osc4", "lfoOsc", "filterEnvSource"}

-----------------------------------------------------------------------------
(* AudioEngine: pure helpers *)

\* midiToFrequency, on the modelled notes
MidiToFrequency(note) ==
    CASE note = 57 -> 220
      [] note = 69 -> 440

\* params.enabled ? params.gain * masterHeadroom : 0, in ten-thousandths
OscTargetGain(o) == IF o.enabled THEN o.gain * 25 ELSE 0

LfoMaxGainPitchScale(target, depth) == depth * 2400

\* updateLfoDepth's maxGain: depth * 1200 (pitch), depth * 4800 (filter), depth * 0.5
\* (amp); depth is in hundredths and the result in two-hundredths
LfoMaxGain(target, depth) ==
    CASE target = "pitch"  -> depth * 2400
      [] target = "filter" -> depth * 9600
      [] target = "amp"    -> depth
      [] OTHER             -> 0

\* noteOn's own computation of the same value (maxLfoDepthVal)
MaxLfoDepthVal(target, depth) ==
    IF target = "pitch" THEN depth * 2400
    ELSE IF target = "filter" THEN depth * 9600
    ELSE IF target = "amp" THEN depth
    ELSE 0

\* what lfoGain is connected to for a target
LfoEdges(target) ==
    CASE target = "pitch"  -> {<<"lfoGain", "osc1.detune">>, <<"lfoGain", "osc2.detune">>,
                               <<"lfoGain", "osc3.detune">>, <<"lfoGain", "osc4.detune">>}
      [] target = "filter" -> {<<"lfoGain", "filter.detune">>}
      [] target = "amp"    -> {<<"lfoGain", "tremoloGain.gain">>}
      [] OTHER             -> {}

\* node.disconnect(): every outgoing connection of the node goes
Disconnect(edges, node) == {e \in edges : e[1] # node}

RECURSIVE DisconnectAll(_, _)
DisconnectAll(edges, nodes) ==
    IF nodes = <<>> THEN edges
    ELSE DisconnectAll(Disconnect(edges, Head(nodes)), Tail(nodes))

\* An AudioParam's automation: the events scheduled on it, in time order.
SetAt(v, t) == [kind |-> "set", value |-> v, time |-> t]
RampTo(v, t) == [kind |-> "ramp", value |-> v, time |-> t]
TargetAt(v, t) == [kind |-> "target", value |-> v, time |-> t]

\* cancelScheduledValues(t): the events at or after t are removed
CancelScheduledValues(events, t) ==
    LET keep == {i \in 1..Len(events) : events[i].time < t}
    IN SubSeq(events, 1, Cardinality(keep))

\* the value the automation gives the parameter at time t (linear ramps are
\* interpolated, rounding down)
ValueAt(events, t) ==
    LET past == {i \in 1..Len(events) : events[i].time <= t}
        k == Cardinality(past)
    IN IF k = 0 THEN 0
       ELSE IF k < Len(events) /\ events[k + 1].kind = "ramp"
            THEN events[k].value
                 + ((events[k + 1].value - events[k].value) * (t - events[k].time))
                      \div (events[k + 1].time - events[k].time)
            ELSE events[k].value

ReleaseStopEarliest(ampRelease, filterRelease) == now + Min(ampRelease, filterRelease)

\* stopTime = now + Math.max(ampRelease, filterRelease)
ReleaseStopTime(ampRelease, filterRelease) == now + Max(ampRelease, filterRelease)

\* the ActiveNote noteOn builds from the held parameters
NewVoice(note, velocity) ==
    LET peakAmp == velocity * 100          \* velocityGain, in 12700ths
        sustainAmp == velocity * params.ampEnvelope.sustain
        amp == params.ampEnvelope
        fe == params.filterEnvelope
        lfo == params.lfo
        maxLfoDepthVal == MaxLfoDepthVal(lfo.target, lfo.depth)
    IN [note |-> note,
        ctx |-> ctxId,
        frequency |-> MidiToFrequency(note),
        oscType |-> [i \in OscIx |-> params.osc[i].waveform],
        oscDetune |-> [i \in OscIx |-> params.osc[i].detune],
        oscGain |-> [i \in OscIx |-> OscTargetGain(params.osc[i])],
        filterQ |-> params.filter.resonance,
        filterFrequency |-> params.filter.cutoff,
        filterEnvGain |-> fe.amount,
        lfoType |-> lfo.waveform,
        lfoRate |-> lfo.rate,
        lfoGain |-> <<SetAt(0, now), SetAt(0, now + lfo.delay),
                      IF lfo.fade > 0
                      THEN RampTo(maxLfoDepthVal, now + lfo.delay + lfo.fade)
                      ELSE SetAt(maxLfoDepthVal, now + lfo.delay)>>,
        lfoTarget |-> lfo.target,
        ampGain |-> <<SetAt(0, now), RampTo(peakAmp, now + amp.attack),
                      RampTo(sustainAmp, now + amp.attack + amp.decay)>>,
        envOffset |-> <<SetAt(0, now), RampTo(100, now + fe.attack),
                        RampTo(fe.sustain, now + fe.attack + fe.decay)>>,
        edges |-> {<<"tremoloGain", "destination">>, <<"amp", "tremoloGain">>,
                   <<"filter", "amp">>, <<"filterEnvSource", "filterEnvGain">>,
                   <<"filterEnvGain", "filter.frequency">>, <<"lfoOsc", "lfoGain">>}
                  \cup {<<OscNode(i), OscGainNode(i)>> : i \in OscIx}
                  \cup {<<OscGainNode(i), "filter">> : i \in OscIx}
                  \cup LfoEdges(lfo.target),
        stopAt |-> [src \in Sources |-> -1],
        onended |-> FALSE,
        ended |-> FALSE,
        tornDown |-> 0]

ReleaseVoiceHoldsAmount(n) ==
    LET ampRelease == params.ampEnvelope.release
        filterRelease == params.filterEnvelope.release
        stopTime == ReleaseStopTime(ampRelease, filterRelease)
    IN [n EXCEPT
          !.ampGain = CancelScheduledValues(n.ampGain, now)
                        \o <<SetAt(ValueAt(n.ampGain, now), now), RampTo(0, now + ampRelease)>>,
          !.envOffset = CancelScheduledValues(n.envOffset, now)
                          \o <<SetAt(n.filterEnvGain, now), RampTo(0, now + filterRelease)>>,
          !.stopAt = [src \in Sources |-> stopTime],
          !.onended = TRUE]

\* noteOff's work on the voice it took out of the map: release ramps, stop
\* times, and the onended handler
ReleaseVoice(n) ==
    LET ampRelease == params.ampEnvelope.release
        filterRelease == params.filterEnvelope.release
        stopTime == ReleaseStopTime(ampRelease, filterRelease)
    IN [n EXCEPT
          !.ampGain = CancelScheduledValues(n.ampGain, now)
                        \o <<SetAt(ValueAt(n.ampGain, now), now), RampTo(0, now + ampRelease)>>,
          !.envOffset = CancelScheduledValues(n.envOffset, now)
                          \o <<SetAt(ValueAt(n.envOffset, now), now),
                               RampTo(0, now + filterRelease)>>,
          !.stopAt = [src \in Sources |-> stopTime],
          !.onended = TRUE]

\* the osc1.onended handler noteOff installs
OnEnded(n) ==
    [n EXCEPT !.edges = DisconnectAll(n.edges,
                          <<"osc1", "osc2", "osc3", "osc4", "lfoOsc", "lfoGain", "filter",
                            "filterEnvSource", "filterEnvGain", "amp", "tremoloGain">>),
              !.tornDown = n.tornDown + 1]

GetOrLast(act, note) ==
    IF act[note] # 0 THEN act[note]
    ELSE IF \E m \in Notes : act[m] # 0
         THEN CHOOSE v \in {act[m] : m \in Notes} : \A m \in Notes : act[m] <= v
         ELSE 0

\* this.activeNotes.get(note) (0: undefined), .has(note), .delete(note), .set(note, v)
Get(act, note) == act[note]
Has(act, note) == Get(act, note) # 0
DeleteKept(act, note) == act
Delete(act, note) == [act EXCEPT ![note] = 0]
MapSet(act, note, v) == [act EXCEPT ![note] = v]

NoteOffBodyCut(act, vs, note) ==
    LET v == Get(act, note)
    IN [active |-> Delete(act, note),
        voices |-> [vs EXCEPT ![v] = [vs[v] EXCEPT !.stopAt = [src \in Sources |-> now],
                                                   !.onended = TRUE]]]

NoteOffBodyAll(act, vs, note) ==
    [active |-> Delete(act, note),
     voices |-> [w \in 1..Len(vs) |->
                    IF \E m \in Notes : act[m] = w THEN ReleaseVoice(vs[w]) ELSE vs[w]]]

\* the body of noteOff(note) past its early return, on a map and a voice table
NoteOffBody(act, vs, note) ==
    LET v == Get(act, note)
    IN [active |-> Delete(act, note),
        voices |-> [vs EXCEPT ![v] = ReleaseVoice(vs[v])]]

RetriggerKeepsOld(act, vs, note) == [active |-> act, voices |-> vs]

\* noteOn's first step: if (this.activeNotes.has(note)) this.noteOff(note)
Retrigger(act, vs, note) ==
    IF Has(act, note) THEN NoteOffBody(act, vs, note)
    ELSE [active |-> act, voices |-> vs]

UpdateVoiceNoReconnect(n, p) ==
    [n EXCEPT !.edges = Disconnect(n.edges, "lfoGain"), !.lfoTarget = p.lfo.target]

UpdateVoiceOscOnly(n, p) ==
    [n EXCEPT
       !.oscType = [i \in OscIx |-> p.osc[i].waveform],
       !.oscDetune = [i \in OscIx |-> p.osc[i].detune],
       !.oscGain = [i \in OscIx |-> OscTargetGain(p.osc[i])]]

UpdateVoiceKeepsWiring(n, p) ==
    [n EXCEPT
       !.oscType = [i \in OscIx |-> p.osc[i].waveform],
       !.oscDetune = [i \in OscIx |-> p.osc[i].detune],
       !.oscGain = [i \in OscIx |-> OscTargetGain(p.osc[i])],
       !.filterFrequency = p.filter.cutoff,
       !.filterQ = p.filter.resonance,
       !.filterEnvGain = p.filterEnvelope.amount,
       !.lfoType = p.lfo.waveform,
       !.lfoRate = p.lfo.rate,
       !.edges = n.edges \cup LfoEdges(p.lfo.target),
       !.lfoGain = Append(n.lfoGain, TargetAt(LfoMaxGain(p.lfo.target, p.lfo.depth), now)),
       !.lfoTarget = p.lfo.target]

\* updateParams' work on one active voice
UpdateVoice(n, p) ==
    LET retarget == n.lfoTarget # p.lfo.target
    IN [n EXCEPT
          !.oscType = [i \in OscIx |-> p.osc[i].waveform],
          !.oscDetune = [i \in OscIx |-> p.osc[i].detune],
          !.oscGain = [i \in OscIx |-> OscTargetGain(p.osc[i])],
          !.filterFrequency = p.filter.cutoff,
          !.filterQ = p.filter.resonance,
          !.filterEnvGain = p.filterEnvelope.amount,
          !.lfoType = p.lfo.waveform,
          !.lfoRate = p.lfo.rate,
          !.edges = IF retarget
                    THEN Disconnect(n.edges, "lfoGain") \cup LfoEdges(p.lfo.target)
                    ELSE n.edges,
          !.lfoGain = Append(n.lfoGain, TargetAt(LfoMaxGain(p.lfo.target, p.lfo.depth), now)),
          !.lfoTarget = p.lfo.target]

IsActiveAny(act, v) == TRUE

\* the voices the map holds
IsActive(act, v) == \E m \in Notes : act[m] = v

-----------------------------------------------------------------------------
(* AudioEngine: operations *)

SynthFields ==
    /\ params = Patch1
    /\ activeNotes = [m \in Notes |-> 0]
    /\ voices = <<>>

StartReturnsNever == FALSE

\* if (this.audioContext && this.audioContext.state === 'running') return
StartReturns == ctxId # 0 /\ ctxState = "running"

start ==
    /\ UNCHANGED drumVars
    /\ IF StartReturns
       THEN /\ lastOp' = Op("start-return")
            /\ UNCHANGED <<now, ctxState, calls, synthVars>>
       ELSE /\ calls < MaxCalls
            /\ calls' = calls + 1
            /\ ctxId' = ctxId + 1
            /\ ctxState' \in {"suspended", "running"}
            /\ lastOp' = Op("start")
            /\ UNCHANGED <<now, params, activeNotes, voices>>

\* the resume() promise start() awaits settles
resumed ==
    /\ UNCHANGED drumVars
    /\ ctxState = "suspended"
    /\ ctxState' = "running"
    /\ lastOp' = Op("resumed")
    /\ UNCHANGED <<now, calls, synthVars>>

updateParams(newParams) ==
    /\ UNCHANGED drumVars
    /\ calls < MaxCalls
    /\ calls' = calls + 1
    /\ params' = newParams
    /\ IF ctxId = 0
       THEN /\ voices' = voices
            /\ lastOp' = OpOn("updateParams-return", newParams)
       ELSE /\ voices' = [v \in 1..Len(voices) |->
                            IF IsActive(activeNotes, v)
                            THEN UpdateVoice(voices[v], newParams)
                            ELSE voices[v]]
            /\ lastOp' = OpOn("updateParams", newParams)
    /\ UNCHANGED <<now, ctxState, ctxId, activeNotes>>

\* noteOn(note, velocity), called for `message` (<<>> when the caller is not the
\* MIDI handler)
noteOnFor(message, note, velocity) ==
    /\ UNCHANGED drumVars
    /\ IF ctxId = 0
       THEN /\ lastOp' = OpFor("noteOn-return", note, message)
            /\ UNCHANGED <<now, ctxState, calls, synthVars>>
       ELSE /\ calls < MaxCalls
            /\ calls' = calls + 1
            /\ LET st == Retrigger(activeNotes, voices, note)
               IN /\ voices' = Append(st.voices, NewVoice(note, velocity))
                  /\ activeNotes' = MapSet(st.active, note, Len(voices) + 1)
            /\ lastOp' = OpFor("noteOn", note, message)
            /\ UNCHANGED <<now, ctxState, ctxId, params>>

noteOn(note, velocity) == noteOnFor(<<>>, note, velocity)

\* noteOff(note), called for `message`
noteOffFor(message, note) ==
    /\ UNCHANGED drumVars
    /\ IF ctxId = 0 \/ ~Has(activeNotes, note)
       THEN /\ lastOp' = OpFor("noteOff-return", note, message)
            /\ UNCHANGED <<now, ctxState, calls, synthVars>>
       ELSE /\ calls < MaxCalls
            /\ calls' = calls + 1
            /\ LET st == NoteOffBody(activeNotes, voices, note)
               IN /\ voices' = st.voices
                  /\ activeNotes' = st.active
            /\ lastOp' = OpFor("noteOff", note, message)
            /\ UNCHANGED <<now, ctxState, ctxId, params>>

noteOff(note) == noteOffFor(<<>>, note)

\* MIDI status bytes: note off and note on (channel 1), note on (channel 2),
\* control change; the note and velocity bytes
MidiCommands == {128, 144, 145, 176}
MidiNotes == {69}
MidiVelocities == {0, 64}

MidiCallAnyNoteOn(command, velocity) ==
    IF command = 144 THEN "noteOn"
    ELSE IF command = 128 THEN "noteOff"
    ELSE "none"

\* the branch handleMidiMessage takes for a message [command, note, velocity]
MidiCall(command, velocity) ==
    IF command = 144 /\ velocity > 0 THEN "noteOn"
    ELSE IF command = 128 \/ (command = 144 /\ velocity = 0) THEN "noteOff"
    ELSE "none"

\* the handler of a MIDI input port; it is installed once the engine exists
handleMidiMessage(command, note, velocity) ==
    LET message == <<command, note, velocity>>
        call == MidiCall(command, velocity)
    IN IF call = "noteOn" THEN noteOnFor(message, note, velocity)
       ELSE IF call = "noteOff" THEN noteOffFor(message, note)
       ELSE /\ lastOp' = OpFor("midi-ignored", note, message)
            /\ UNCHANGED <<now, ctxState, calls, drumVars, synthVars>>

osc1EndedTearsStored(v) ==
    /\ UNCHANGED drumVars
    /\ v \in 1..Len(voices)
    /\ voices[v].stopAt["osc1"] >= 0
    /\ voices[v].stopAt["osc1"] <= now
    /\ ~voices[v].ended
    /\ LET stored == activeNotes[voices[v].note]
           t == IF stored # 0 THEN stored ELSE v
           marked == [voices EXCEPT ![v] = [voices[v] EXCEPT !.ended = TRUE]]
       IN voices' = [marked EXCEPT ![t] = OnEnded(marked[t])]
    /\ lastOp' = OpOn("ended", voices[v].note)
    /\ UNCHANGED <<now, ctxState, calls, ctxId, params, activeNotes>>

\* osc1 reaches its stop time: the ended event runs the handler, once
osc1Ended(v) ==
    /\ UNCHANGED drumVars
    /\ v \in 1..Len(voices)
    /\ voices[v].stopAt["osc1"] >= 0
    /\ voices[v].stopAt["osc1"] <= now
    /\ ~voices[v].ended
    /\ voices' = [voices EXCEPT ![v] =
                    IF voices[v].onended THEN [OnEnded(voices[v]) EXCEPT !.ended = TRUE]
                    ELSE [voices[v] EXCEPT !.ended = TRUE]]
    /\ lastOp' = OpOn("ended", voices[v].note)
    /\ UNCHANGED <<now, ctxState, calls, ctxId, params, activeNotes>>

\* a voice whose stop time is still ahead
Releasing(v) == voices[v].stopAt["osc1"] > now /\ ~voices[v].ended

\* the running context's clock advances
SynthAdvance ==
    /\ UNCHANGED drumVars
    /\ ctxState = "running"
    /\ now + ClockStep <= MaxSynthTime \/ \E v \in 1..Len(voices) : Releasing(v)
    /\ now' = now + ClockStep
    /\ lastOp' = Op("advance")
    /\ UNCHANGED <<ctxState, calls, synthVars>>

-----------------------------------------------------------------------------
(* DrumMachineEngine: pure helpers *)

\* getRate: 2^(semitones/12), in halves (so -12 -> 1/2, 0 -> 1, 12 -> 2)
GetRate(semitones) ==
    CASE semitones = -12 -> 1
      [] semitones = 0   -> 2
      [] semitones = 12  -> 4

SecondsPer16thHalved(b) == 1200 \div b

\* secondsPer16thNote = 60 / bpm / 4, in ticks
SecondsPer16th(b) == 2400 \div b

SwingDelayFull(step, sw, sp16) ==
    IF step % 2 = 1 THEN (sw * sp16) \div 100 ELSE 0

SwingDelayEvery(step, sw, sp16) == (sw * sp16) \div 200

\* swingDelay = isOffbeat ? swingFactor * (secondsPer16thNote / 2) : 0
SwingDelay(step, sw, sp16) ==
    IF step % 2 = 1 THEN (sw * sp16) \div 200 ELSE 0

\* the tracks whose pattern bit at `step` is set, in the order the code tests them
RECURSIVE FiredFrom(_, _, _)
FiredFrom(pat, step, i) ==
    IF i > Len(Tracks) THEN <<>>
    ELSE (IF pat[Tracks[i]][step + 1] = 1 THEN <<Tracks[i]>> ELSE <<>>)
         \o FiredFrom(pat, step, i + 1)
FiredTracksAll(pat, step) == Tracks
FiredTracks(pat, step) == FiredFrom(pat, step, 1)

StepRecordSwungGrid(t, step) ==
    LET sp16 == SecondsPer16th(bpm)
        playTime == t + SwingDelay(step, swing, sp16)
    IN [step |-> step, grid |-> t, fire |-> playTime, at |-> now,
        tracks |-> FiredTracks(pattern, step),
        due |-> now + Max(0, playTime - now),
        next |-> playTime + sp16]

\* one call of scheduleNextNote with grid time t and step index step:
\* what it enqueues and defers
StepRecord(t, step) ==
    LET sp16 == SecondsPer16th(bpm)
        playTime == t + SwingDelay(step, swing, sp16)
    IN [step |-> step, grid |-> t, fire |-> playTime, at |-> now,
        tracks |-> FiredTracks(pattern, step),
        due |-> now + Max(0, playTime - now),
        next |-> t + sp16]

NextStepNoWrap(step) == step + 1

\* this.currentStep = (this.currentStep + 1) % 16
NextStep(step) == (step + 1) % 16

SchedulerLoopOnce(t, step, acc) == Append(acc, StepRecord(t, step))

\* scheduler(): while (nextNoteTime < currentTime + scheduleAheadTime) scheduleNextNote()
RECURSIVE SchedulerLoop(_, _, _)
SchedulerLoop(t, step, acc) ==
    IF t < now + scheduleAheadTime
    THEN LET r == StepRecord(t, step)
         IN SchedulerLoop(r.next, NextStep(step), Append(acc, r))
    ELSE acc

EventsOf(b) ==
    UNION { { [track |-> b[i].tracks[j], time |-> b[i].fire,
               rate |-> GetRate(trackPitches[b[i].tracks[j]])] : j \in 1..Len(b[i].tracks) }
            : i \in 1..Len(b) }

RECURSIVE UiTimersOf(_, _, _)
UiTimersOf(b, i, r) ==
    IF i > Len(b) THEN <<>>
    ELSE <<[due |-> b[i].due, step |-> b[i].step, run |-> r]>> \o UiTimersOf(b, i + 1, r)

ArmWakeNever(pending) == {[due |-> w.due, held |-> FALSE] : w \in pending}

ArmWakeLosesHandle(pending) == pending \cup {[due |-> now + lookahead, held |-> FALSE]}

\* window.setTimeout returns a fresh handle: the timer it creates is the one
\* this.timerId now names, and no older timer is
ArmWake(pending) ==
    {[due |-> w.due, held |-> FALSE] : w \in pending}
        \cup {[due |-> now + lookahead, held |-> TRUE]}

ClearWakeNone(pending) == pending

\* window.clearTimeout(this.timerId): cancels the timer the handle names, if pending
ClearWake(pending) == {w \in pending : ~w.held}

\* the effect of one scheduler() call that starts at grid time t and step index
\* step, in run r, with the wake timers in `pending` still waiting
RunScheduler(t, step, r, fromPlay, pending) ==
    \E b \in {SchedulerLoop(t, step, <<>>)} :
       /\ batch' = b
       /\ batchFromPlay' = fromPlay
       /\ prevFire' = lastFire
       /\ lastFire' = IF b = <<>> THEN lastFire ELSE b[Len(b)].fire
       /\ queue' = queue \cup EventsOf(b)
       /\ uiTimers' = uiTimers \o UiTimersOf(b, 1, r)
       /\ nextNoteTime' = IF b = <<>> THEN t ELSE b[Len(b)].next
       /\ currentStep' = IF b = <<>> THEN step ELSE NextStep(b[Len(b)].step)
       /\ scheduled' = Min(MaxScheduled, (IF fromPlay THEN 0 ELSE scheduled) + Len(b))
       /\ timerId' = 1
       /\ wakeTimers' = ArmWake(pending)

-----------------------------------------------------------------------------
(* DrumMachineEngine: operations *)

\* the fields as the constructor leaves them
DrumFields ==
    /\ isPlaying = FALSE
    /\ bpm = DEFAULT_BPM
    /\ pattern = NoPattern
    /\ currentStep = 0
    /\ timerId = 0
    /\ nextNoteTime = 0
    /\ swing = 0
    /\ trackPitches = [t \in TrackSet |-> 0]
    /\ wakeTimers = {}
    /\ uiTimers = <<>>
    /\ queue = {}
    /\ batch = <<>>
    /\ batchFromPlay = FALSE
    /\ prevFire = -1
    /\ lastFire = -1
    /\ delivered = [value |-> -2, forStep |-> -2, run |-> 0]
    /\ run = 0
    /\ scheduled = 0

\* the sequencer is constructed on the context of a started AudioEngine
DrumInit ==
    /\ now = 0
    /\ ctxState = "running"
    /\ ctxId = 1
    /\ SynthFields
    /\ DrumFields
    /\ calls = 0
    /\ lastOp = Op("new")

setBpmKeepsFastest(newBpm) ==
    /\ UNCHANGED synthVars
    /\ calls < MaxCalls
    /\ bpm' = Max(bpm, newBpm)
    /\ calls' = calls + 1
    /\ lastOp' = OpOn("setBpm", newBpm)
    /\ UNCHANGED <<now, ctxState, isPlaying, pattern, currentStep, timerId, nextNoteTime,
                   swing, trackPitches, wakeTimers, uiTimers, queue, batch, batchFromPlay,
                   prevFire, lastFire, delivered, run, scheduled>>

setBpm(newBpm) ==
    /\ UNCHANGED synthVars
    /\ calls < MaxCalls
    /\ bpm' = newBpm
    /\ calls' = calls + 1
    /\ lastOp' = OpOn("setBpm", newBpm)
    /\ UNCHANGED <<now, ctxState, isPlaying, pattern, currentStep, timerId, nextNoteTime,
                   swing, trackPitches, wakeTimers, uiTimers, queue, batch, batchFromPlay,
                   prevFire, lastFire, delivered, run, scheduled>>

setSwingRegrid(value) ==
    /\ UNCHANGED synthVars
    /\ calls < MaxCalls
    /\ swing' = value
    /\ nextNoteTime' = now
    /\ calls' = calls + 1
    /\ lastOp' = OpOn("setSwing", value)
    /\ UNCHANGED <<now, ctxState, isPlaying, bpm, pattern, currentStep, timerId,
                   trackPitches, wakeTimers, uiTimers, queue, batch, batchFromPlay,
                   prevFire, lastFire, delivered, run, scheduled>>

setSwing(value) ==
    /\ UNCHANGED synthVars
    /\ calls < MaxCalls
    /\ swing' = value
    /\ calls' = calls + 1
    /\ lastOp' = OpOn("setSwing", value)
    /\ UNCHANGED <<now, ctxState, isPlaying, bpm, pattern, currentStep, timerId, nextNoteTime,
                   trackPitches, wakeTimers, uiTimers, queue, batch, batchFromPlay,
                   prevFire, lastFire, delivered, run, scheduled>>

setTrackPitch(track, pitch) ==
    /\ UNCHANGED synthVars
    /\ calls < MaxCalls
    /\ trackPitches' = [trackPitches EXCEPT ![track] = pitch]
    /\ calls' = calls + 1
    /\ lastOp' = OpOn("setTrackPitch", <<track, pitch>>)
    /\ UNCHANGED <<now, ctxState, isPlaying, bpm, pattern, currentStep, timerId, nextNoteTime,
                   swing, wakeTimers, uiTimers, queue, batch, batchFromPlay,
                   prevFire, lastFire, delivered, run, scheduled>>

setPattern(p) ==
    /\ UNCHANGED synthVars
    /\ calls < MaxCalls
    /\ pattern' = p
    /\ calls' = calls + 1
    /\ lastOp' = OpOn("setPattern", p)
    /\ UNCHANGED <<now, ctxState, isPlaying, bpm, currentStep, timerId, nextNoteTime,
                   swing, trackPitches, wakeTimers, uiTimers, queue, batch, batchFromPlay,
                   prevFire, lastFire, delivered, run, scheduled>>

PlaySoundFallsThrough(track) ==
    CASE track = "kick"  -> {"kick", "snare", "hihat", "crash"}
      [] track = "snare" -> {"snare", "hihat", "crash"}
      [] track = "hihat" -> {"hihat", "crash"}
      [] OTHER           -> {"crash"}

\* switch (track) { case 'kick': this.createKick(now); break; ... }
PlaySoundFires(track) ==
    CASE track = "kick"  -> {"kick"}
      [] track = "snare" -> {"snare"}
      [] track = "hihat" -> {"hihat"}
      [] track = "crash" -> {"crash"}
      [] OTHER           -> {}

\* playSound(track): the track's generator at currentTime
playSound(track) ==
    /\ UNCHANGED synthVars
    /\ calls < MaxCalls
    /\ queue' = queue \cup {[track |-> t, time |-> now, rate |-> GetRate(trackPitches[t])] :
                               t \in PlaySoundFires(track)}
    /\ calls' = calls + 1
    /\ lastOp' = OpOn("playSound", track)
    /\ UNCHANGED <<now, ctxState, isPlaying, bpm, pattern, currentStep, timerId, nextNoteTime,
                   swing, trackPitches, wakeTimers, uiTimers, batch, batchFromPlay,
                   prevFire, lastFire, delivered, run, scheduled>>

PlayReturnsNoPattern == pattern = NoPattern

\* if (this.isPlaying || !this.pattern) return;
PlayReturns == isPlaying \/ pattern = NoPattern

FirstNoteTimeNow == now

\* this.nextNoteTime = this.audioContext.currentTime + 0.05
FirstNoteTime == now + leadIn

play ==
    /\ UNCHANGED synthVars
    /\ IF PlayReturns
       THEN /\ lastOp' = Op("play-return")
            /\ UNCHANGED <<now, ctxState, calls, drumVars>>
       ELSE /\ calls < MaxCalls
            /\ calls' = calls + 1
            /\ ctxState' = IF ctxState = "suspended" THEN "running" ELSE ctxState
            /\ isPlaying' = TRUE
            /\ run' = run + 1
            /\ RunScheduler(FirstNoteTime, 0, run + 1, TRUE, wakeTimers)
            /\ lastOp' = Op("play")
            /\ UNCHANGED <<now, bpm, pattern, swing, trackPitches, delivered>>

StopReturnsNever == FALSE

\* if (!this.isPlaying) return;
StopReturns == ~isPlaying

stop ==
    /\ UNCHANGED synthVars
    /\ IF StopReturns
       THEN /\ lastOp' = Op("stop-return")
            /\ UNCHANGED <<now, ctxState, calls, drumVars>>
       ELSE /\ isPlaying' = FALSE
            /\ wakeTimers' = ClearWake(wakeTimers)
            /\ delivered' = [value |-> -1, forStep |-> -1, run |-> run]
            /\ lastOp' = Op("stop")
            /\ calls < MaxCalls
            /\ calls' = calls + 1
            /\ UNCHANGED <<now, ctxState, bpm, pattern, currentStep, timerId, nextNoteTime, swing,
                           trackPitches, uiTimers, queue, batch, batchFromPlay, prevFire,
                           lastFire, run, scheduled>>

\* a timer may run once its delay has elapsed, however late, and not before a
\* pending timer that is due earlier
EarliestDue(d) ==
    /\ \A w \in wakeTimers : w.due >= d
    /\ \A i \in 1..Len(uiTimers) : uiTimers[i].due >= d

\* the wake timer fires: scheduler()
scheduler(w) ==
    /\ UNCHANGED synthVars
    /\ w \in wakeTimers
    /\ w.due <= now
    /\ EarliestDue(w.due)
    /\ RunScheduler(nextNoteTime, currentStep, run, FALSE, wakeTimers \ {w})
    /\ lastOp' = Op("scheduler")
    /\ UNCHANGED <<now, ctxState, isPlaying, bpm, pattern, swing, trackPitches, delivered,
                   run, calls>>

RemoveAt(s, i) == SubSeq(s, 1, i - 1) \o SubSeq(s, i + 1, Len(s))

\* what the deferred callback hands to onStepChange: it reads this.currentStep
\* when it runs
CallbackValue(t) == currentStep

\* a deferred step callback fires:
\*   if (this.isPlaying && this.onStepChange) this.onStepChange(this.currentStep)
CallbackRunsAlways == TRUE

CallbackRunsOnceStarted == run > 0

\* the deferred callback's guard: if (this.isPlaying && this.onStepChange)
CallbackRuns == isPlaying

stepCallback(i) ==
    /\ UNCHANGED synthVars
    /\ i \in 1..Len(uiTimers)
    /\ uiTimers[i].due <= now
    /\ EarliestDue(uiTimers[i].due)
    /\ \A j \in 1..(i - 1) : uiTimers[j].due > uiTimers[i].due
    /\ uiTimers' = RemoveAt(uiTimers, i)
    /\ IF CallbackRuns
       THEN /\ delivered' = [value |-> CallbackValue(uiTimers[i]),
                             forStep |-> uiTimers[i].step, run |-> uiTimers[i].run]
            /\ lastOp' = Op("stepCallback")
       ELSE /\ delivered' = delivered
            /\ lastOp' = Op("stepCallback-skip")
    /\ UNCHANGED <<now, ctxState, isPlaying, bpm, pattern, currentStep, timerId, nextNoteTime,
                   swing, trackPitches, wakeTimers, queue, batch, batchFromPlay, prevFire,
                   lastFire, run, scheduled, calls>>

PendingNone(q, t) == {}

\* the enqueued events whose start time (osc.start(time), noise.start(time)) is
\* not before t
Pending(q, t) == {e \in q : e.time >= t}

\* the sink's clock advances; events whose start time has passed leave the queue
DrumAdvance ==
    /\ UNCHANGED synthVars
    /\ now + ClockStep <= MaxTime
    /\ \A w \in wakeTimers : w.due > now \/ now + ClockStep <= w.due + MaxWakeLate
    /\ \A i \in 1..Len(uiTimers) :
          uiTimers[i].due > now \/ now + ClockStep <= uiTimers[i].due + MaxUiLate
    /\ now' = now + ClockStep
    /\ queue' = Pending(queue, now + ClockStep)
    /\ lastOp' = Op("advance")
    /\ UNCHANGED <<ctxState, isPlaying, bpm, pattern, currentStep, timerId, nextNoteTime,
                   swing, trackPitches, wakeTimers, uiTimers, batch, batchFromPlay, prevFire,
                   lastFire, delivered, run, scheduled, calls>>

DrumNext ==
    \/ \E b \in Bpms : setBpm(b)
    \/ \E s \in Swings : setSwing(s)
    \/ \E t \in TrackSet, p \in Pitches : setTrackPitch(t, p)
    \/ \E p \in Patterns : setPattern(p)
    \/ \E t \in TrackSet : playSound(t)
    \/ play
    \/ stop
    \/ \E w \in wakeTimers : scheduler(w)
    \/ \E i \in 1..Len(uiTimers) : stepCallback(i)
    \/ DrumAdvance

DrumSpec == DrumInit /\ [][DrumNext]_vars

\* the sequencer driven by the transport alone: a pattern, a tempo, play/stop
RunNext ==
    \/ setPattern(AllOn)
    \/ \E b \in Bpms : setBpm(b)
    \/ play
    \/ stop
    \/ \E w \in wakeTimers : scheduler(w)
    \/ \E i \in 1..Len(uiTimers) : stepCallback(i)
    \/ DrumAdvance

\* the host's event loop runs every timer that is due, and the sink's clock
\* keeps advancing
FairRunSpec ==
    /\ DrumInit /\ [][RunNext]_vars
    /\ WF_vars(DrumAdvance)
    /\ WF_vars(\E w \in wakeTimers : scheduler(w))
    /\ WF_vars(\E i \in 1..Len(uiTimers) : stepCallback(i))

-----------------------------------------------------------------------------
(* The voice manager on its own *)

SynthInit ==
    /\ now = 0
    /\ ctxState = "none"
    /\ ctxId = 0
    /\ SynthFields
    /\ DrumFields
    /\ calls = 0
    /\ lastOp = Op("new")

SynthNext ==
    \/ start
    \/ resumed
    \/ \E p \in ParamSets : updateParams(p)
    \/ \E n \in Notes, vel \in Velocities : noteOn(n, vel)
    \/ \E n \in Notes : noteOff(n)
    \/ \E v \in 1..Len(voices) : osc1Ended(v)
    \/ SynthAdvance

SynthSpec == SynthInit /\ [][SynthNext]_vars

\* the synth played from a MIDI input, after the host has started the engine
MidiNext ==
    \/ \E c \in MidiCommands, n \in MidiNotes, vel \in MidiVelocities : handleMidiMessage(c, n, vel)
    \/ \E v \in 1..Len(voices) : osc1Ended(v)
    \/ SynthAdvance

MidiSpec == DrumInit /\ [][MidiNext]_vars

\* the sink keeps rendering and delivers every ended event
FairSynthSpec ==
    /\ SynthSpec
    /\ WF_vars(SynthAdvance)
    /\ \A v \in 1..MaxCalls : WF_vars(osc1Ended(v))

-----------------------------------------------------------------------------
(* Properties of the sequencer *)

\* C1: every drum event a scheduling pass enqueues (in play() or in a later
\* pass) has a fire time that is not before the sink's current time at the
\* moment it is enqueued, however late the wake timer ran.
C1_NeverInThePast ==
    \A i \in 1..Len(batch) :
        batch[i].tracks # <<>> => batch[i].fire >= batch[i].at

\* the fire times of the steps of one scheduling pass, in scheduling order,
\* are strictly increasing
BatchIncreasing ==
    \A i \in 1..(Len(batch) - 1) : batch[i].fire < batch[i + 1].fire

\* C2 as stated: over any sequence of play(), stop(), setBpm(), setSwing() and
\* scheduling passes, each scheduled step fires strictly after every step
\* scheduled before it (in this run or an earlier one).
C2_MonotoneAcrossRuns ==
    /\ BatchIncreasing
    /\ batch # <<>> => prevFire < batch[1].fire

\* C2 amended: within one run (from a play() to the next stop()) each scheduled
\* step fires strictly after every step scheduled before it in that run, for any
\* setBpm() / setSwing() in between; only a play() restarts the grid.
C2_MonotoneWithinRun ==
    /\ BatchIncreasing
    /\ (batch # <<>> /\ ~batchFromPlay) => prevFire < batch[1].fire

\* a later pass of a run has scheduled a swung odd step after earlier steps
C2_Witness ==
    /\ ~batchFromPlay
    /\ prevFire >= 0
    /\ Len(batch) >= 2
    /\ \E i \in 1..Len(batch) : batch[i].fire > batch[i].grid

\* C3: the step callback is invoked with the index of the step it was
\* scheduled for, never with the index of a different step.
C3_CallbackCarriesItsStep ==
    delivered.value >= 0 => delivered.value = delivered.forStep


-----------------------------------------------------------------------------
(* Properties of the voice manager *)

VoiceIds == 1..Len(voices)
Last(q) == q[Len(q)]

\* the connections noteOn makes, with the LFO routed to `target`
FullGraph(target) ==
    {<<"tremoloGain", "destination">>, <<"amp", "tremoloGain">>, <<"filter", "amp">>,
     <<"filterEnvSource", "filterEnvGain">>, <<"filterEnvGain", "filter.frequency">>,
     <<"lfoOsc", "lfoGain">>,
     <<"osc1", "osc1Gain">>, <<"osc2", "osc2Gain">>, <<"osc3", "osc3Gain">>,
     <<"osc4", "osc4Gain">>, <<"osc1Gain", "filter">>, <<"osc2Gain", "filter">>,
     <<"osc3Gain", "filter">>, <<"osc4Gain", "filter">>}
        \cup (CASE target = "pitch"  -> {<<"lfoGain", "osc1.detune">>, <<"lfoGain", "osc2.detune">>,
                                         <<"lfoGain", "osc3.detune">>, <<"lfoGain", "osc4.detune">>}
                [] target = "filter" -> {<<"lfoGain", "filter.detune">>}
                [] target = "amp"    -> {<<"lfoGain", "tremoloGain.gain">>})

\* a noteOff(n) that found a voice takes n out of the map and schedules all six
\* sound sources of that voice to stop at now + max(ampRelease, filterRelease)
NoteOffSchedulesStop ==
    lastOp'.op = "noteOff" =>
        LET n == lastOp'.arg
            v == activeNotes[n]
        IN /\ v # 0
           /\ activeNotes'[n] = 0
           /\ \A src \in Sources :
                voices'[v].stopAt[src]
                    = now + Max(params.ampEnvelope.release, params.filterEnvelope.release)

\* voice v, built in the context that is now running, has been released by a noteOff
ReleasedWhileRunning(v) ==
    IF v \in VoiceIds
    THEN voices[v].onended /\ ctxState = "running" /\ voices[v].ctx = ctxId
    ELSE FALSE

\* voice v's stop event has run its teardown, and v is not in the map
TornDown(v) ==
    IF v \in VoiceIds THEN voices[v].tornDown = 1 /\ ~IsActive(activeNotes, v) ELSE FALSE

\* C4: noteOn(n) followed by noteOff(n) leaves no entry for n, schedules every
\* sound source of the voice to stop at noteOff time + max(ampRelease,
\* filterRelease), and, the sink running, the voice is eventually torn down.
C4_ReleasedVoiceIsTornDown ==
    /\ [][NoteOffSchedulesStop]_vars
    /\ \A v \in 1..MaxCalls : ReleasedWhileRunning(v) ~> TornDown(v)

\* a voice released with a release tail has been torn down after its stop time
C4_Witness ==
    \E v \in VoiceIds :
        /\ voices[v].tornDown = 1
        /\ activeNotes[voices[v].note] = 0
        /\ voices[v].stopAt["osc1"] > Last(voices[v].ampGain).time
        /\ now >= voices[v].stopAt["osc1"]

\* the voices of note n that no noteOff has released
Held(n) == {v \in VoiceIds : voices[v].note = n /\ ~voices[v].onended}

\* C5: after any sequence of noteOn, noteOff and updateParams the active-voice
\* set holds at most one voice per note: a note never has two unreleased
\* voices, and its unreleased voice is the one the map holds.
C5_OneVoicePerNote ==
    \A n \in Notes :
        /\ Cardinality(Held(n)) <= 1
        /\ \A v \in Held(n) : activeNotes[n] = v

\* a note was retriggered: its old voice is released, its new one is held
C5_Witness ==
    \E n \in Notes : \E v \in VoiceIds :
        /\ voices[v].note = n
        /\ voices[v].onended
        /\ activeNotes[n] # 0
        /\ activeNotes[n] # v

\* C6: once a released voice's stop event has fired, no node of the voice
\* (oscillators, their gain stages, LFO, filter, envelope source and gain, amp,
\* tremolo) keeps an outgoing connection.
C6_EveryNodeDisconnected ==
    \A v \in VoiceIds :
        voices[v].tornDown >= 1 => \A e \in voices[v].edges : e[1] \notin VoiceNodes

\* an active voice is whole: nothing stopped, nothing disconnected
Intact(voice) ==
    /\ \A src \in Sources : voice.stopAt[src] = -1
    /\ ~voice.ended
    /\ voice.tornDown = 0
    /\ voice.edges = FullGraph(voice.lfoTarget)

\* a step tears a voice down only as the stop event of that voice's own noteOff,
\* and takes a voice out of the map only as a noteOn / noteOff of its own note
TeardownOnlyByOwnStop ==
    \A v \in VoiceIds :
        /\ voices'[v].tornDown # voices[v].tornDown =>
              /\ lastOp'.op = "ended"
              /\ voices[v].onended
              /\ voices[v].tornDown = 0
              /\ voices[v].stopAt["osc1"] <= now
              /\ \A w \in VoiceIds \ {v} : voices'[w] = voices[w]
        /\ (IsActive(activeNotes, v) /\ ~IsActive(activeNotes', v)) =>
              /\ lastOp'.op \in {"noteOn", "noteOff"}
              /\ lastOp'.arg = voices[v].note

\* C7: a voice's graph is torn down at most once and only by the stop event its
\* own noteOff scheduled; a voice in the active set is never stopped or
\* disconnected by another note's noteOn / noteOff, updateParams or anything else.
C7_TornDownOnceByOwnStop ==
    /\ [](\A v \in VoiceIds : voices[v].tornDown <= 1
                              /\ (IsActive(activeNotes, v) => Intact(voices[v])))
    /\ [][TeardownOnlyByOwnStop]_vars

\* two notes are held, a third voice has been torn down, and the parameters
\* were updated to another LFO target while voices were held
C7_Witness ==
    /\ \E v \in VoiceIds : voices[v].tornDown = 1
    /\ \E v \in VoiceIds : /\ IsActive(activeNotes, v)
                           /\ voices[v].lfoTarget # "pitch"
                           /\ Len(voices[v].lfoGain) > 3

\* noteOff(n) on an active note: n leaves the map in that call while its voice
\* is still whole and its stop time not yet passed
NoteOffRemovesAtOnce ==
    lastOp'.op = "noteOff" =>
        LET n == lastOp'.arg
            v == activeNotes[n]
        IN /\ v # 0
           /\ activeNotes'[n] = 0
           /\ ~voices'[v].ended
           /\ voices'[v].tornDown = 0
           /\ voices'[v].stopAt["osc1"] >= now
           /\ voices'[v].edges = voices[v].edges

\* a noteOn(n) on a note with no entry builds a new voice and leaves every
\* older voice (the releasing ones of n too) as it was
NoteOnAfterRelease ==
    (lastOp'.op = "noteOn" /\ activeNotes[lastOp'.arg] = 0) =>
        /\ Len(voices') = Len(voices) + 1
        /\ activeNotes'[lastOp'.arg] = Len(voices) + 1
        /\ ~voices'[Len(voices) + 1].onended
        /\ \A v \in VoiceIds : voices'[v] = voices[v]

\* C8: noteOff(n) removes n from the active set in the same call, before the
\* release tail has played out, so a noteOn(n) right after creates a new voice
\* while the old one is still releasing.
C8_ImmediateRemoval ==
    /\ [][NoteOffRemovesAtOnce /\ NoteOnAfterRelease]_vars
    /\ [](\A v \in VoiceIds : voices[v].onended => ~IsActive(activeNotes, v))

\* note n sounds again, put there by a noteOn after a noteOff, while its
\* earlier voice is still in its release tail
C8_Witness ==
    /\ lastOp.op = "noteOn"
    /\ \E v \in VoiceIds :
          /\ voices[v].note = lastOp.arg
          /\ voices[v].onended
          /\ ~voices[v].ended
          /\ voices[v].stopAt["osc1"] > now
          /\ Last(voices[v].ampGain).time < now + params.ampEnvelope.release
          /\ activeNotes[lastOp.arg] = Len(voices)

\* noteOn(n) on an active note releases the old voice as noteOff does and stores
\* a new voice under n
RetriggerReleasesOld ==
    (lastOp'.op = "noteOn" /\ activeNotes[lastOp'.arg] # 0) =>
        LET n == lastOp'.arg
            old == activeNotes[n]
            new == Len(voices) + 1
        IN /\ Len(voices') = new
           /\ activeNotes'[n] = new
           /\ voices'[new].note = n
           /\ Intact(voices'[new])
           /\ voices'[old].onended
           /\ \A src \in Sources :
                voices'[old].stopAt[src]
                    = now + Max(params.ampEnvelope.release, params.filterEnvelope.release)
           /\ Last(voices'[old].ampGain) = RampTo(0, now + params.ampEnvelope.release)
           /\ Last(voices'[old].envOffset) = RampTo(0, now + params.filterEnvelope.release)
           /\ voices'[old].edges = voices[old].edges
           /\ ~voices'[old].ended

\* nothing but its own stop event, at or after its stop time, changes a released voice
ReleasedVoiceKeepsSchedule ==
    \A v \in VoiceIds :
        (voices[v].onended /\ voices'[v] # voices[v]) =>
            /\ lastOp'.op = "ended"
            /\ now >= voices[v].stopAt["osc1"]
            /\ voices'[v].stopAt = voices[v].stopAt
            /\ voices'[v].ampGain = voices[v].ampGain
            /\ voices'[v].envOffset = voices[v].envOffset

\* C9: noteOn(n) when n is already active first performs noteOff(n) on the old
\* voice, then builds a new voice and stores it under n; the old voice keeps
\* fading on its own release schedule and is not cut short by the new voice.
C9_RetriggerKeepsOldRelease ==
    [][RetriggerReleasesOld /\ ReleasedVoiceKeepsSchedule]_vars

\* a retriggered note: the old voice is in a release tail that ends later,
\* the new voice is held
C9_Witness ==
    \E v \in VoiceIds :
        /\ voices[v].onended
        /\ ~voices[v].ended
        /\ voices[v].stopAt["osc1"] > now
        /\ activeNotes[voices[v].note] = v + 1
        /\ Last(voices[v].ampGain).time = voices[v + 1].ampGain[1].time
                                            + params.ampEnvelope.release

\* C10: noteOff(n) when n has no active voice is a no-op: the active-voice set,
\* the held parameters and every existing voice are unchanged.
C10_NoteOffInactiveIsNoOp ==
    [][(lastOp'.op \in {"noteOff", "noteOff-return"} /\ activeNotes[lastOp'.arg] = 0)
          => UNCHANGED <<activeNotes, params, voices, ctxId, ctxState, now>>]_vars

\* noteOff of a silent note returned early while another note was held and a
\* third voice was releasing
C10_Witness ==
    /\ lastOp.op = "noteOff-return"
    /\ ctxId # 0
    /\ activeNotes[lastOp.arg] = 0
    /\ \E m \in Notes : activeNotes[m] # 0
    /\ \E v \in VoiceIds : voices[v].onended

\* C11: noteOff(n), called by the host or by a retriggering noteOn(n), cancels
\* and reschedules automation only on the voice of n: every other voice
\* (active or releasing) keeps its automation, stop times and wiring, and every
\* other note keeps its entry.
C11_NoteOffTouchesOnlyItsVoice ==
    [][(lastOp'.op = "noteOff" \/ (lastOp'.op = "noteOn" /\ activeNotes[lastOp'.arg] # 0)) =>
          LET n == lastOp'.arg
              v == activeNotes[n]
          IN /\ v # 0
             /\ voices'[v].ampGain # voices[v].ampGain
             /\ \A w \in VoiceIds \ {v} : voices'[w] = voices[w]
             /\ \A m \in Notes \ {n} : activeNotes'[m] = activeNotes[m]]_vars

\* a noteOff has just released one voice while another note is held with its
\* envelope still scheduled ahead
C11_Witness ==
    /\ lastOp.op = "noteOff"
    /\ \E m \in Notes \ {lastOp.arg} :
          /\ activeNotes[m] # 0
          /\ Last(voices[activeNotes[m]].ampGain).time > now
          /\ Intact(voices[activeNotes[m]])

-----------------------------------------------------------------------------
(* Further properties of the sequencer *)

\* C12: play() while already running changes nothing: currentStep and
\* nextNoteTime stay, no drum event is enqueued, no callback is deferred and no
\* second wake timer is armed.
C12_PlayTwiceIsPlayOnce ==
    [][(lastOp'.op \in {"play", "play-return"} /\ isPlaying) =>
          /\ isPlaying'
          /\ UNCHANGED <<currentStep, nextNoteTime, queue, wakeTimers, uiTimers, timerId,
                         scheduled, run, batch>>]_vars

\* a play() returned early in a run that has one wake timer pending
C12_Witness ==
    /\ lastOp.op = "play-return"
    /\ isPlaying
    /\ Cardinality(wakeTimers) = 1
    /\ scheduled > 0

\* while stopped no scheduling pass runs, the grid does not move, and nothing
\* but a playSound() preview adds a drum event
StoppedIsQuiet ==
    ~isPlaying =>
        /\ lastOp'.op # "scheduler"
        /\ lastOp'.op # "play" =>
              UNCHANGED <<currentStep, nextNoteTime, batch, scheduled, wakeTimers>>
        /\ lastOp'.op \notin {"play", "playSound"} => queue' \subseteq queue

\* C13: stop() cancels the pending wake timer in the call: once stopped no wake
\* timer is pending, no scheduling pass runs and the sequencer enqueues no
\* further drum event until play() is called again.
C13_StopCancelsWake ==
    /\ [](~isPlaying => wakeTimers = {})
    /\ [][StoppedIsQuiet]_vars
    /\ [][lastOp'.op = "stop" => wakeTimers # {} /\ wakeTimers' = {}]_vars

\* stopped after a run, and the clock has passed the point where the next
\* pass would have scheduled more steps
C13_Witness ==
    /\ ~isPlaying
    /\ run > 0
    /\ lastOp.op = "advance"
    /\ nextNoteTime < now + scheduleAheadTime
    /\ now > batch[Len(batch)].at + lookahead

\* C14 as stated: every call of stop() emits the sentinel, whenever it is made.
C14_StopAlwaysEmits ==
    [][lastOp'.op \in {"stop", "stop-return"} =>
          (delivered'.value = -1 /\ delivered' # delivered)]_vars

\* C14 amended: stop() called while running emits the sentinel (-1), also
\* between a step's scheduling and its deferred callback; the callbacks still
\* pending then deliver nothing, so the sentinel stays the last value delivered
\* while stopped. (stop() while already stopped emits nothing.)
C14_RunningStopEmits ==
    /\ [][lastOp'.op = "stop" => (delivered'.value = -1 /\ delivered' # delivered)]_vars
    /\ []((~isPlaying /\ run > 0) => delivered.value = -1)

\* a deferred callback of a step scheduled before stop() has fired after it and
\* delivered nothing
C14_Witness ==
    /\ lastOp.op = "stepCallback-skip"
    /\ ~isPlaying
    /\ delivered.value = -1

\* C15: stop() leaves every enqueued drum event in place, and an event leaves
\* the sink's queue only as the clock passes its start time.
C15_StopKeepsEnqueuedEvents ==
    [][/\ lastOp'.op = "stop" => queue' = queue
       /\ \A e \in queue \ queue' : lastOp'.op = "advance" /\ e.time < now']_vars

\* stop() has just returned with events still ahead of the clock
C15_Witness ==
    /\ lastOp.op = "stop"
    /\ \E e \in queue : e.time > now

\* C16: play() with no pattern loaded and stop() while stopped are silent
\* no-ops: running flag, currentStep, nextNoteTime and timers unchanged, no drum
\* event enqueued, nothing handed to the step callback.
C16_SilentNoOps ==
    [][((lastOp'.op \in {"play", "play-return"} /\ pattern = NoPattern)
          \/ (lastOp'.op \in {"stop", "stop-return"} /\ ~isPlaying)) =>
          UNCHANGED <<isPlaying, currentStep, nextNoteTime, timerId, wakeTimers, uiTimers,
                      queue, delivered, batch, run>>]_vars

\* stop() returned early after an earlier run had been stopped
C16_Witness ==
    /\ lastOp.op = "stop-return"
    /\ run > 0
    /\ delivered.value = -1

\* C17: currentStep is always in 0..15 and is the number of steps scheduled
\* since play() modulo 16; the steps of a pass have consecutive indices modulo 16.
C17_StepCycles ==
    /\ currentStep \in 0..15
    /\ scheduled < MaxScheduled => currentStep = scheduled % 16
    /\ \A i \in 1..Len(batch) :
          /\ batch[i].step \in 0..15
          /\ i < Len(batch) => batch[i + 1].step = (batch[i].step + 1) % 16

\* sixteen steps have been scheduled since play() and currentStep is 0 again
C17_Witness ==
    /\ scheduled = 16
    /\ currentStep = 0
    /\ batch # <<>>
    /\ batch[Len(batch)].step = 15

\* a step is being scheduled: play() or a wake of the scheduler
Scheduling == lastOp'.op \in {"play", "scheduler"}

\* C18: the fire time of a scheduled step is its grid time plus the swing
\* delay: (swing/100) * (secondsPer16th/2) on odd steps (200 * bpm * delay =
\* swing * 2400 ticks), nothing on even steps.
C18_FireTimeIsGridPlusSwing ==
    [][Scheduling =>
          \A i \in 1..Len(batch') :
              LET r == batch'[i]
              IN IF r.step % 2 = 1
                 THEN 200 * bpm * (r.fire - r.grid) = swing * 2400
                 ELSE r.fire = r.grid]_vars

\* a pass scheduled an odd step half a 16th note late and an even step on the grid
C18_Witness ==
    /\ \E i \in 1..Len(batch) :
          /\ batch[i].step % 2 = 1
          /\ 2 * (batch[i].fire - batch[i].grid) = batch[i].next - batch[i].grid
    /\ \E i \in 1..Len(batch) : batch[i].step % 2 = 0 /\ batch[i].fire = batch[i].grid

\* C19: each scheduled step advances nextNoteTime by exactly secondsPer16th
\* (bpm * advance = 2400 ticks), for odd and even steps and any swing; the next
\* step starts from that grid time.
C19_GridAdvancesBySixteenth ==
    [][Scheduling =>
          /\ \A i \in 1..Len(batch') :
                /\ bpm * (batch'[i].next - batch'[i].grid) = 2400
                /\ i < Len(batch') => batch'[i + 1].grid = batch'[i].next
          /\ IF batch' = <<>>
             THEN nextNoteTime' = nextNoteTime
             ELSE /\ nextNoteTime' = batch'[Len(batch')].next
                  /\ batch'[1].grid = IF lastOp'.op = "play" THEN now + leadIn
                                      ELSE nextNoteTime]_vars

\* a wake of the scheduler scheduled a swung odd step and then the next step,
\* which sits one straight 16th after the odd step's grid time
C19_Witness ==
    /\ lastOp.op = "scheduler"
    /\ \E i \in 1..(Len(batch) - 1) :
          /\ batch[i].step % 2 = 1
          /\ batch[i].fire > batch[i].grid
          /\ batch[i + 1].grid = batch[i].next
          /\ batch[i + 1].fire > batch[i].fire

\* the place of a track in the order the code tests the pattern bits
TrackIndex(t) == CHOOSE i \in 1..Len(Tracks) : Tracks[i] = t

\* C20: when step s is scheduled the generators invoked are exactly those of
\* the tracks whose pattern bit at s is set, in the order kick, snare, hihat,
\* crash, each enqueuing an event at the step's fire time; nothing else is enqueued.
C20_TracksOfStep ==
    [][Scheduling =>
          /\ \A i \in 1..Len(batch') :
                LET r == batch'[i]
                IN /\ {r.tracks[j] : j \in 1..Len(r.tracks)}
                        = {t \in TrackSet : pattern[t][r.step + 1] = 1}
                   /\ \A j, k \in 1..Len(r.tracks) :
                        j < k => TrackIndex(r.tracks[j]) < TrackIndex(r.tracks[k])
                   /\ \A j \in 1..Len(r.tracks) :
                        \E e \in queue' : e.track = r.tracks[j] /\ e.time = r.fire
          /\ \A e \in queue' \ queue :
                \E i \in 1..Len(batch') :
                    /\ e.time = batch'[i].fire
                    /\ pattern[e.track][batch'[i].step + 1] = 1]_vars

\* a step with some but not all tracks set has been scheduled and its events
\* are in the sink's queue
C20_Witness ==
    /\ lastOp.op \in {"play", "scheduler"}
    /\ \E i \in 1..Len(batch) :
          /\ Len(batch[i].tracks) \in 2..3
          /\ \A j \in 1..Len(batch[i].tracks) :
                \E e \in queue : e.track = batch[i].tracks[j] /\ e.time = batch[i].fire

\* the four setters of the sequencer
Setters == {"setBpm", "setPattern", "setSwing", "setTrackPitch"}

\* C21: setBpm, setPattern, setSwing and setTrackPitch change only their own
\* field: currentStep, nextNoteTime, the running flag, the pending timers and
\* every enqueued event (and the other three fields) are unchanged.
C21_SettersArePure ==
    [][lastOp'.op \in Setters =>
          /\ UNCHANGED <<currentStep, nextNoteTime, isPlaying, timerId, wakeTimers, uiTimers,
                         queue, batch, scheduled, delivered>>
          /\ lastOp'.op # "setBpm" => bpm' = bpm
          /\ lastOp'.op # "setSwing" => swing' = swing
          /\ lastOp'.op # "setPattern" => pattern' = pattern
          /\ lastOp'.op # "setTrackPitch" => trackPitches' = trackPitches
          /\ lastOp'.op = "setTrackPitch" =>
                \A t \in TrackSet \ {lastOp'.arg[1]} : trackPitches'[t] = trackPitches[t]]_vars

\* the swing was just set in a run with events enqueued ahead and a wake timer pending
C21_Witness ==
    /\ lastOp.op = "setSwing"
    /\ swing = 100
    /\ isPlaying
    /\ wakeTimers # {}
    /\ \E e \in queue : e.time > now

-----------------------------------------------------------------------------
(* Both engines on one running context, driven by the host's live updates *)

LiveNext ==
    \/ \E b \in Bpms : setBpm(b)
    \/ \E sw \in Swings : setSwing(sw)
    \/ \E p \in Pitches : setTrackPitch("kick", p)
    \/ \E p \in {FourOnFloor, AllOn} : setPattern(p)
    \/ play
    \/ \E w \in wakeTimers : scheduler(w)
    \/ \E i \in 1..Len(uiTimers) : stepCallback(i)
    \/ DrumAdvance
    \/ \E p \in {Patch2, Patch3} : updateParams(p)
    \/ \E vel \in Velocities : noteOn(69, vel)

LiveSpec == DrumInit /\ [][LiveNext]_vars

\* a setter leaves its argument in its field
LastWriteStored ==
    /\ lastOp'.op = "setBpm" => bpm' = lastOp'.arg
    /\ lastOp'.op = "setSwing" => swing' = lastOp'.arg
    /\ lastOp'.op = "setPattern" => pattern' = lastOp'.arg
    /\ lastOp'.op = "setTrackPitch" => trackPitches'[lastOp'.arg[1]] = lastOp'.arg[2]
    /\ lastOp'.op \in {"updateParams", "updateParams-return"} => params' = lastOp'.arg

\* a scheduling pass computes its steps from the fields as they are when it runs
PassUsesFields ==
    Scheduling =>
        /\ \A i \in 1..Len(batch') :
              LET r == batch'[i]
              IN /\ bpm * (r.next - r.grid) = 2400
                 /\ 200 * bpm * (r.fire - r.grid) = (IF r.step % 2 = 1 THEN swing * 2400 ELSE 0)
                 /\ \A t \in TrackSet :
                      (pattern[t][r.step + 1] = 1) <=> (\E j \in 1..Len(r.tracks) : r.tracks[j] = t)
        /\ \A e \in queue' \ queue : e.rate = GetRate(trackPitches[e.track])

\* does a voice carry the live-updatable values of ParameterSet p
Carries(voice, p) ==
    /\ \A i \in OscIx : /\ voice.oscType[i] = p.osc[i].waveform
                        /\ voice.oscDetune[i] = p.osc[i].detune
                        /\ voice.oscGain[i] = (IF p.osc[i].enabled THEN 25 * p.osc[i].gain ELSE 0)
    /\ voice.filterFrequency = p.filter.cutoff
    /\ voice.filterQ = p.filter.resonance
    /\ voice.filterEnvGain = p.filterEnvelope.amount
    /\ voice.lfoRate = p.lfo.rate
    /\ voice.lfoType = p.lfo.waveform

\* a new voice and a live update take the ParameterSet held when they run
VoicesUseHeldParams ==
    /\ lastOp'.op = "noteOn" =>
          /\ Carries(voices'[Len(voices')], params)
          /\ voices'[Len(voices')].lfoTarget = params.lfo.target
    /\ lastOp'.op = "updateParams" =>
          \A v \in VoiceIds :
              IsActive(activeNotes, v) =>
                  /\ Carries(voices'[v], lastOp'.arg)
                  /\ voices'[v].lfoTarget = lastOp'.arg.lfo.target

\* C22: last write wins: a setter leaves its argument in its field, each
\* scheduled step is computed from the bpm, swing, pattern and track pitch held
\* when it is scheduled, and each new voice and live update uses the
\* ParameterSet held at that moment; an overwritten value is not used again.
C22_LastWriteWins ==
    [][LastWriteStored /\ PassUsesFields /\ VoicesUseHeldParams]_vars

\* a held voice has been updated twice in a row and carries the later
\* ParameterSet, while the sequencer has scheduled steps of the loaded pattern
C22_Witness ==
    /\ lastOp.op = "updateParams"
    /\ batch # <<>>
    /\ \E v \in VoiceIds :
          /\ IsActive(activeNotes, v)
          /\ Len(voices[v].lfoGain) >= 4
          /\ Carries(voices[v], params)

-----------------------------------------------------------------------------
(* Live parameter updates, the LFO wiring and the engine lifecycle *)

\* C23: updateParams(p) replaces the held ParameterSet and, for every voice in
\* the active set, applies p's oscillator waveforms and detunes, the
\* per-oscillator gain targets (enabled ? gain * 0.25 : 0), the filter cutoff and
\* resonance, the envelope amount and the LFO rate and waveform; no active voice
\* is skipped, and a voice outside the active set is not touched.
C23_UpdateReachesEveryActiveVoice ==
    [][lastOp'.op = "updateParams" =>
          /\ params' = lastOp'.arg
          /\ Len(voices') = Len(voices)
          /\ \A v \in VoiceIds :
                IF \E m \in Notes : activeNotes[m] = v
                THEN Carries(voices'[v], lastOp'.arg)
                ELSE voices'[v] = voices[v]]_vars

\* two held voices built from the first patch have both been updated to another
C23_Witness ==
    /\ lastOp.op = "updateParams"
    /\ params # Patch1
    /\ \A m \in Notes : activeNotes[m] # 0
    /\ \A m \in Notes : Carries(voices[activeNotes[m]], params)

\* the destinations the spec names for an LFO target
LfoDestinations(target) ==
    CASE target = "pitch"  -> {"osc1.detune", "osc2.detune", "osc3.detune", "osc4.detune"}
      [] target = "filter" -> {"filter.detune"}
      [] target = "amp"    -> {"tremoloGain.gain"}

\* where a voice's lfoGain is connected
LfoWiring(voice) == {e[2] : e \in {d \in voice.edges : d[1] = "lfoGain"}}

\* the peak depth the spec names for an LFO target, in two-hundredths
PeakDepth(target, depth) ==
    CASE target = "pitch"  -> 2 * depth * 1200
      [] target = "filter" -> 2 * depth * 4800
      [] target = "amp"    -> depth

\* C24: after every step each active voice's stored LFO target equals the held
\* parameters' lfo.target, and its lfoGain is connected to exactly that target's
\* destinations and to none of an earlier target; an updateParams that keeps the
\* target leaves the wiring untouched and only schedules the new depth.
C24_LfoWiringFollowsTarget ==
    [][/\ \A v \in 1..Len(voices') :
            IsActive(activeNotes', v) =>
                /\ voices'[v].lfoTarget = params'.lfo.target
                /\ LfoWiring(voices'[v]) = LfoDestinations(params'.lfo.target)
       /\ lastOp'.op = "updateParams" =>
            \A v \in VoiceIds :
                IsActive(activeNotes, v) /\ voices[v].lfoTarget = lastOp'.arg.lfo.target =>
                    /\ voices'[v].edges = voices[v].edges
                    /\ Len(voices'[v].lfoGain) = Len(voices[v].lfoGain) + 1
                    /\ \A k \in 1..Len(voices[v].lfoGain) :
                          voices'[v].lfoGain[k] = voices[v].lfoGain[k]]_vars

\* a held voice built with the LFO on pitch has been re-routed to the tremolo
\* gain, and the four detune connections are gone
C24_Witness ==
    /\ lastOp.op = "updateParams"
    /\ \E v \in VoiceIds :
          /\ IsActive(activeNotes, v)
          /\ voices[v].lfoGain[3].value = PeakDepth("pitch", Patch1.lfo.depth)
          /\ voices[v].lfoTarget = "amp"
          /\ LfoWiring(voices[v]) = {"tremoloGain.gain"}

LfoTargets == {"pitch", "filter", "amp"}
Depths == {0, 50, 100}

\* C25: the LFO peak depth is depth * 1200 for pitch, depth * 4800 for filter and
\* depth * 0.5 for amp, and 0 when depth is 0; the value noteOn schedules for a
\* new voice and the value a live update schedules are that value, and the two
\* computations agree on every target and depth.
C25_PeakDepthByTarget ==
    [][/\ lastOp'.op = "noteOn" =>
            Last(voices'[Len(voices')].lfoGain).value
                = PeakDepth(params.lfo.target, params.lfo.depth)
       /\ lastOp'.op = "updateParams" =>
            \A v \in VoiceIds :
                IsActive(activeNotes, v) =>
                    Last(voices'[v].lfoGain)
                        = [kind |-> "target", time |-> now,
                           value |-> PeakDepth(lastOp'.arg.lfo.target, lastOp'.arg.lfo.depth)]
       /\ \A t \in LfoTargets, d \in Depths :
            /\ MaxLfoDepthVal(t, d) = PeakDepth(t, d)
            /\ LfoMaxGain(t, d) = MaxLfoDepthVal(t, d)
            /\ d = 0 => LfoMaxGain(t, d) = 0]_vars

\* a voice built with full depth on the filter has then been updated to depth 0
\* on the tremolo gain
C25_Witness ==
    /\ lastOp.op = "updateParams"
    /\ \E v \in VoiceIds :
          /\ IsActive(activeNotes, v)
          /\ voices[v].lfoGain[3].value = 4800 * 2 * 100
          /\ Last(voices[v].lfoGain).value = 0
          /\ voices[v].lfoTarget = "amp"

\* C26: start() is idempotent: called again after it has succeeded (the context
\* exists and is running) it keeps the same context and leaves the active-voice
\* set, the voices and the held ParameterSet unchanged.
C26_StartIsIdempotent ==
    [][lastOp'.op \in {"start", "start-return"} /\ ctxId # 0 /\ ctxState = "running" =>
          /\ lastOp'.op = "start-return"
          /\ UNCHANGED <<ctxId, ctxState, params, activeNotes, voices>>]_vars

\* start() was called again while a voice was held on the first context
C26_Witness ==
    /\ lastOp.op = "start-return"
    /\ ctxId = 1
    /\ params # Patch1
    /\ \E v \in VoiceIds : IsActive(activeNotes, v) /\ voices[v].ctx = 1

NoteOps == {"noteOn", "noteOn-return", "noteOff", "noteOff-return"}

\* C27: noteOn and noteOff called before start() has succeeded (no context, or a
\* context whose resume is still pending) are silent no-ops: the active set
\* stays empty and nothing is built or scheduled; updateParams before start only
\* replaces the held ParameterSet.
C27_NoOpsBeforeStartSucceeds ==
    [][/\ lastOp'.op \in NoteOps /\ ~(ctxId # 0 /\ ctxState = "running") =>
            /\ UNCHANGED <<params, activeNotes, voices>>
            /\ \A m \in Notes : activeNotes'[m] = 0
       /\ lastOp'.op \in {"updateParams", "updateParams-return"} /\ ctxId = 0 =>
            /\ params' = lastOp'.arg
            /\ UNCHANGED <<activeNotes, voices>>]_vars

-----------------------------------------------------------------------------
(* Previews and the first step of a run *)

\* C28: playSound(track) fires exactly that track's one generator at the
\* current time and leaves currentStep, nextNoteTime, the running flag, the
\* pattern and the pending wake timer unchanged, running or stopped.
C28_PlaySoundFiresOneGenerator ==
    [][lastOp'.op = "playSound" =>
          /\ queue' = queue \cup {[track |-> lastOp'.arg, time |-> now,
                                   rate |-> GetRate(trackPitches[lastOp'.arg])]}
          /\ UNCHANGED <<currentStep, nextNoteTime, isPlaying, pattern, timerId, wakeTimers,
                         uiTimers, bpm, swing, trackPitches, delivered>>]_vars

\* a preview made while the sequencer runs a pattern with no step set: the one
\* enqueued event is the preview, and the wake timer is still pending
C28_Witness ==
    /\ lastOp.op = "playSound"
    /\ isPlaying
    /\ wakeTimers # {}
    /\ pattern = DEFAULT_DRUM_PATTERN
    /\ now > 0
    /\ queue = {[track |-> lastOp.arg, time |-> now, rate |-> GetRate(trackPitches[lastOp.arg])]}

\* C30: play() from stopped with a pattern loaded sets the running flag, resets
\* currentStep to 0 and sets nextNoteTime to now plus a positive lead-in (0.05 s)
\* before its first scheduling pass, so the first step of the run is step 0 on
\* the grid time now + lead-in and every step of that pass is scheduled strictly
\* after the time of the play() call.
C30_PlayLeadsIn ==
    [][lastOp'.op = "play" =>
          /\ ~isPlaying /\ pattern # NoPattern
          /\ isPlaying'
          /\ leadIn > 0
          /\ batch' # <<>>
          /\ batch'[1].step = 0
          /\ batch'[1].at = now
          /\ batch'[1].grid = now + leadIn
          /\ \A k \in 1..Len(batch') : batch'[k].fire > now /\ batch'[k].grid > now]_vars

\* a second run, started after the first had advanced: it begins again at step
\* 0, one lead-in after the call
C30_Witness ==
    /\ lastOp.op = "play"
    /\ run = 2
    /\ now > 0
    /\ batch[1].step = 0
    /\ batch[1].fire = now + leadIn
    /\ currentStep = Len(batch)

-----------------------------------------------------------------------------
(* MIDI input *)

\* C29: a 3-byte MIDI message with status 0x90 and velocity > 0 causes exactly
\* one noteOn(note, velocity): one voice is built for that note with that
\* velocity; a message with status 0x80, or 0x90 with velocity 0, causes exactly
\* one noteOff(note): no voice is built and the note leaves the active set; any
\* other message causes neither and changes nothing in the engine.
C29_MidiDispatch ==
    [][lastOp'.msg # <<>> =>
          LET command == lastOp'.msg[1]
              note == lastOp'.msg[2]
              velocity == lastOp'.msg[3]
          IN IF command = 144 /\ velocity > 0
             THEN /\ lastOp'.op = "noteOn" /\ lastOp'.arg = note
                  /\ Len(voices') = Len(voices) + 1
                  /\ Last(voices').note = note
                  /\ Last(voices').ampGain[2].value = velocity * 100
                  /\ activeNotes' = [activeNotes EXCEPT ![note] = Len(voices')]
             ELSE IF command = 128 \/ (command = 144 /\ velocity = 0)
             THEN /\ lastOp'.op \in {"noteOff", "noteOff-return"} /\ lastOp'.arg = note
                  /\ Len(voices') = Len(voices)
                  /\ activeNotes' = [activeNotes EXCEPT ![note] = 0]
                  /\ activeNotes[note] # 0 =>
                        /\ lastOp'.op = "noteOff"
                        /\ voices'[activeNotes[note]].stopAt["osc1"] >= now
             ELSE /\ lastOp'.op = "midi-ignored"
                  /\ UNCHANGED <<params, activeNotes, voices>>]_vars

\* a voice built by a note-on of velocity 64 has been released by a note-on
\* message of velocity 0
C29_Witness ==
    /\ lastOp = [op |-> "noteOff", arg |-> 69, msg |-> <<144, 69, 0>>]
    /\ activeNotes[69] = 0
    /\ \E v \in VoiceIds :
          /\ voices[v].note = 69
          /\ voices[v].ampGain[2].value = 6400
          /\ voices[v].stopAt["osc1"] >= now

-----------------------------------------------------------------------------
(* The scheduling pass and its wake timer *)

\* C31: a scheduling pass schedules a step only while nextNoteTime < now +
\* scheduleAheadTime: the grid time of every step it enqueues is below now +
\* window when it is enqueued; when the pass ends nextNoteTime >= now + window,
\* and the wake timer has been re-armed one lookahead ahead.
C31_PassStaysInsideWindow ==
    [][Scheduling =>
          /\ \A i \in 1..Len(batch') :
                batch'[i].at = now /\ batch'[i].grid < now + scheduleAheadTime
          /\ nextNoteTime' >= now + scheduleAheadTime
          /\ (lastOp'.op = "scheduler" /\ nextNoteTime >= now + scheduleAheadTime) =>
                (batch' = <<>> /\ nextNoteTime' = nextNoteTime /\ queue' = queue)
          /\ [due |-> now + lookahead, held |-> TRUE] \in wakeTimers']_vars

\* a wake found the grid inside the window, scheduled several steps up to the
\* window's edge and re-armed the timer
C31_Witness ==
    /\ lastOp.op = "scheduler"
    /\ Len(batch) >= 2
    /\ batch[Len(batch)].grid < now + scheduleAheadTime
    /\ batch[Len(batch)].grid + SecondsPer16th(bpm) >= now + scheduleAheadTime
    /\ wakeTimers = {[due |-> now + lookahead, held |-> TRUE]}

\* C33: for any interleaving of play(), stop() and wake-timer firings at most one
\* wake timer is pending at any time, it is the one timerId names, and none is
\* pending while the sequencer is stopped.
C33_OneWakeTimer ==
    /\ Cardinality(wakeTimers) <= 1
    /\ \A w \in wakeTimers : w.held /\ isPlaying

\* in a second run, after a stop() and a play(), a wake has fired and left
\* exactly one timer pending
C33_Witness ==
    /\ lastOp.op = "scheduler"
    /\ run = 2
    /\ isPlaying
    /\ Cardinality(wakeTimers) = 1

\* C38: with a pattern loaded and bpm > 0 every scheduling pass terminates: each
\* iteration moves the grid forward by secondsPer16th > 0 while the bound now +
\* scheduleAheadTime stays fixed, so a pass that starts at grid time t0 runs
\* exactly as many iterations as 16th notes fit between t0 and the bound, and
\* then re-arms the timer.
C38_PassTerminates ==
    [][Scheduling =>
          LET sp16 == 2400 \div bpm
              t0 == IF lastOp'.op = "play" THEN now + leadIn ELSE nextNoteTime
              n == Len(batch')
          IN /\ pattern # NoPattern /\ bpm > 0 /\ sp16 > 0
             /\ \A i \in 1..n : /\ batch'[i].at = now
                                /\ batch'[i].grid = t0 + (i - 1) * sp16
                                /\ batch'[i].next > batch'[i].grid
             /\ t0 + n * sp16 >= now + scheduleAheadTime
             /\ n > 0 => t0 + (n - 1) * sp16 < now + scheduleAheadTime
             /\ n = 0 => t0 >= now + scheduleAheadTime
             /\ wakeTimers' # {}]_vars

\* a late wake at 600 bpm caught up with the clock in one pass of at least
\* five iterations
C38_Witness ==
    /\ lastOp.op = "scheduler"
    /\ bpm = 600
    /\ Len(batch) >= 5
    /\ batch[1].grid < now
    /\ nextNoteTime >= now + scheduleAheadTime

-----------------------------------------------------------------------------
(* Deferred step callbacks across stop() and play() *)

\* C34: a deferred step callback scheduled during one run never delivers a step
\* index during a later run: after stop() followed by play(), the callbacks still
\* pending from the earlier run deliver nothing to the host.
C34_NoDeliveryFromEarlierRun ==
    [][(delivered' # delivered /\ lastOp'.op = "stepCallback") => delivered'.run = run]_vars

\* C35: while the sequencer is stopped the step callback never receives a step
\* index: after stop() delivers the sentinel, the deferred callbacks of
\* already-scheduled steps that fire deliver nothing, and no value in 0..15 is
\* delivered until play() is called again.
C35_NoStepWhileStopped ==
    /\ [][~isPlaying /\ lastOp'.op \in {"stepCallback", "stepCallback-skip"} =>
             /\ lastOp'.op = "stepCallback-skip"
             /\ delivered' = delivered
             /\ Len(uiTimers') = Len(uiTimers) - 1]_vars
    /\ [][(delivered' # delivered /\ delivered'.value \in 0..15) =>
             (isPlaying /\ isPlaying' /\ lastOp'.op = "stepCallback")]_vars
    /\ [](~isPlaying => delivered.value \notin 0..15)

\* stopped with two or more deferred callbacks pending: one has fired and
\* delivered nothing, the others are still waiting
C35_Witness ==
    /\ lastOp.op = "stepCallback-skip"
    /\ ~isPlaying
    /\ uiTimers # <<>>
    /\ delivered = [value |-> -1, forStep |-> -1, run |-> run]

-----------------------------------------------------------------------------
(* The filter envelope generator, and voices in their release tail *)

\* an automation whose scheduled values, and every value it takes between
\* them, lie in [0, 1] (in hundredths)
InUnitRange(events) ==
    /\ \A k \in 1..Len(events) : events[k].value \in 0..100
    /\ \A t \in 0..Last(events).time : ValueAt(events, t) \in 0..100

\* C32: for every ADSR with sustain in [0, 1] and non-negative times the value
\* scheduled on a voice's filter-envelope generator stays in [0, 1] over the
\* voice's whole life: noteOn ramps it 0 to 1 over attack and 1 to sustain over
\* decay, and noteOff ramps it from its current value to 0 over release.
C32_FilterEnvelopeInUnitRange ==
    /\ [](\A v \in VoiceIds : InUnitRange(voices[v].envOffset))
    /\ [][lastOp'.op = "noteOn" =>
             LET fe == params.filterEnvelope
             IN /\ fe.sustain \in 0..100 /\ fe.attack >= 0 /\ fe.decay >= 0 /\ fe.release >= 0
                /\ Last(voices').envOffset
                     = <<[kind |-> "set", value |-> 0, time |-> now],
                         [kind |-> "ramp", value |-> 100, time |-> now + fe.attack],
                         [kind |-> "ramp", value |-> fe.sustain,
                          time |-> now + fe.attack + fe.decay]>>]_vars
    /\ [][\A v \in VoiceIds :
             (~voices[v].onended /\ voices'[v].onended) =>
                 LET q == voices'[v].envOffset
                     n == Len(q)
                 IN /\ n >= 2
                    /\ q[n] = [kind |-> "ramp", value |-> 0,
                               time |-> now + params.filterEnvelope.release]
                    /\ q[n - 1] = [kind |-> "set", time |-> now,
                                   value |-> ValueAt(voices[v].envOffset, now)]
                    /\ \A k \in 1..(n - 2) : q[k].time < now]_vars

\* a voice released in the middle of its decay ramp: the release starts from a
\* value strictly between the sustain level and 1
C32_Witness ==
    \E v \in VoiceIds :
        /\ voices[v].onended
        /\ Len(voices[v].envOffset) = 4
        /\ voices[v].envOffset[2].value = 100
        /\ voices[v].envOffset[3].value \in 41..99
        /\ voices[v].envOffset[3].kind = "set"
        /\ Last(voices[v].envOffset).value = 0

\* the voices a step changes
Changed == {w \in VoiceIds : voices'[w] # voices[w]}

\* C36: when a note is retriggered while its previous voice is still releasing,
\* the stop event of the old voice disconnects only the old voice's nodes: the
\* map is unchanged, and the newer voice stored under the same note stays in the
\* active set with its graph and automation intact.
C36_OldStopSparesNewVoice ==
    [][lastOp'.op = "ended" =>
          /\ activeNotes' = activeNotes
          /\ Len(voices') = Len(voices)
          /\ Cardinality(Changed) = 1
          /\ \A w \in Changed :
                /\ voices[w].onended
                /\ voices[w].note = lastOp'.arg
                /\ voices[w].stopAt["osc1"] <= now
                /\ \A m \in Notes : activeNotes[m] # w
          /\ \A m \in Notes :
                activeNotes[m] # 0 =>
                    LET new == voices'[activeNotes'[m]]
                    IN /\ new = voices[activeNotes[m]]
                       /\ new.edges = FullGraph(new.lfoTarget)
                       /\ new.tornDown = 0
                       /\ ~new.onended]_vars

\* the old voice of a retriggered note has just been torn down while the newer
\* voice of the same note is held and whole
C36_Witness ==
    /\ lastOp.op = "ended"
    /\ \E old \in VoiceIds, new \in VoiceIds :
          /\ old < new
          /\ voices[old].note = lastOp.arg
          /\ voices[new].note = lastOp.arg
          /\ voices[old].tornDown = 1
          /\ activeNotes[lastOp.arg] = new
          /\ voices[new].edges = FullGraph(voices[new].lfoTarget)
          /\ voices[new].ampGain[1].time < voices[old].stopAt["osc1"]

\* C37: updateParams never changes a voice that noteOff has already released: a
\* voice in its release tail is not in the active set, so its waveforms, gains,
\* filter settings, LFO wiring and scheduled release stay as noteOff left them.
C37_UpdateSparesReleasedVoices ==
    /\ [](\A v \in VoiceIds : voices[v].onended => \A m \in Notes : activeNotes[m] # v)
    /\ [][lastOp'.op \in {"updateParams", "updateParams-return"} =>
             \A v \in VoiceIds : voices[v].onended => voices'[v] = voices[v]]_vars

\* the parameters were updated to another LFO target while a voice was in its
\* release tail: the tail still has the wiring and values it was released with
C37_Witness ==
    /\ lastOp.op = "updateParams"
    /\ \E v \in VoiceIds :
          /\ voices[v].onended
          /\ ~voices[v].ended
          /\ voices[v].stopAt["osc1"] > now
          /\ voices[v].lfoTarget # params.lfo.target
          /\ voices[v].filterFrequency # params.filter.cutoff

-----------------------------------------------------------------------------
(* Progress of the grid *)

\* the last value the modelled clock reaches
LastClock == (MaxTime \div ClockStep) * ClockStep

\* the steps of a pass continue the cycle where the previous pass left it
PassContinuesCycle ==
    Scheduling =>
        LET first == IF lastOp'.op = "play" THEN 0 ELSE currentStep
        IN /\ \A i \in 1..Len(batch') : batch'[i].step = (first + i - 1) % 16
           /\ currentStep' = (first + Len(batch')) % 16
           /\ lastOp'.op = "scheduler" => scheduled' >= scheduled

\* C39: while the sequencer stays running and its wake timer keeps firing as
\* time advances, the grid keeps progressing: from every state in which the
\* next grid time is still within the clock's reach, a wake of the scheduler
\* schedules further steps (unless the host stops the sequencer); the steps come
\* in cyclic order 0, 1, ..., 15, 0, none skipped or repeated.
C39_GridKeepsProgressing ==
    /\ [][PassContinuesCycle]_vars
    /\ (isPlaying /\ nextNoteTime < LastClock + scheduleAheadTime)
          ~> (~isPlaying \/ (lastOp.op = "scheduler" /\ batch # <<>>))

\* wakes have carried the grid once round the cycle: sixteen steps scheduled in
\* one run, the last pass run by the wake timer, and the next step is 0 again
C39_Witness ==
    /\ lastOp.op = "scheduler"
    /\ isPlaying
    /\ scheduled >= 16
    /\ batch # <<>>
    /\ batch[Len(batch)].step = 15
    /\ currentStep = 0

====
